---- MODULE Spec2Model ----
(***************************************************************************)
(* Model of src/ai2holodeck/generation/github_llm.py: the GithubModelsLLM  *)
(* chat-completion client.  __init__ resolves the configuration from the   *)
(* explicit arguments and the process environment; __call__ posts one      *)
(* payload to the primary endpoint and, for some responses, to the         *)
(* fallback endpoint, and either returns the assistant text or raises.     *)
(*                                                                         *)
(* Representation.  Python strings are TLA+ strings.  A value that may be  *)
(* None is an option record: None or Some(v).  A response body is a record *)
(* of the properties the code inspects (does it parse, is it a dict, has   *)
(* it an "error" member, ...); the raw text r.text, the error message and  *)
(* str(data) are represented by their lengths, and a slice s[:n] by the    *)
(* length of the slice.  temperature is kept in tenths (0.2 is 2).         *)
(***************************************************************************)
EXTENDS Integers, Sequences, FiniteSets, TLC

VARIABLES args, env, client, pc, prompt, payload, idx, calls, outcome,
          invocations, lastOutcome

vars == <<args, env, client, pc, prompt, payload, idx, calls, outcome,
          invocations, lastOutcome>>

----------------------------------------------------------------------------
(* Bounds of the model *)

\* number of __call__ invocations made on the one client instance
MaxInvocations == 2

----------------------------------------------------------------------------
(* Python values *)

None == [some |-> FALSE]

Some(v) == [some |-> TRUE, val |-> v]

Min(a, b) == IF a <= b THEN a ELSE b

\* truth value of an optional string: None and "" are falsy
Truthy(o) == o.some /\ o.val # ""

\* Python's `a or b`: a when a is truthy, else b
PyOr(a, b) == IF Truthy(a) THEN a ELSE b

\* os.getenv(name): None when the variable is unset
Getenv(e, name) == e[name]

\* os.getenv(name, default): the default only when the variable is unset
GetenvDefault(e, name, default) == IF e[name].some THEN e[name].val ELSE default

\* str.rstrip("/"): drop every trailing "/"
RECURSIVE Rstrip(_)
Rstrip(s) ==
    IF Len(s) > 0 /\ SubSeq(s, Len(s), Len(s)) = "/"
    THEN Rstrip(SubSeq(s, 1, Len(s) - 1))
    ELSE s

\* the letters str.lower() changes, among those the environment values use
LowerChar(c) ==
    CASE c = "T" -> "t"
      [] c = "R" -> "r"
      [] c = "U" -> "u"
      [] c = "E" -> "e"
      [] c = "Y" -> "y"
      [] c = "S" -> "s"
      [] OTHER -> c

\* str.lower()
RECURSIVE Lower(_)
Lower(s) ==
    IF Len(s) = 0 THEN s
    ELSE LowerChar(SubSeq(s, 1, 1)) \o Lower(SubSeq(s, 2, Len(s)))

\* s[:n] on a string of length len: the length of the slice
Slice(len, n) == Min(len, n)

----------------------------------------------------------------------------
(* __init__ *)

DefaultBaseUrl == "https://models.github.ai/inference"

DefaultModel == "openai/gpt-4o-mini"

DefaultMaxTokens == 2048

DefaultTemperature == 2

DefaultTimeout == 120

\* a keyword argument with a non-None default: the default when omitted
ArgOr(a, default) == IF a.some THEN a.val ELSE default

\* self.api_key: may stay None or ""
ResolveApiKey(a, e) ==
    PyOr(PyOr(PyOr(a.api_key, Getenv(e, "GITHUB_TOKEN")),
              Getenv(e, "GH_TOKEN")),
         Getenv(e, "OPENAI_API_KEY"))

\* self.base_url
ResolveBaseUrl(a, e) ==
    Rstrip(PyOr(PyOr(PyOr(a.base_url, Getenv(e, "OPENAI_API_BASE")),
                     Getenv(e, "OPENAI_BASE_URL")),
                Some(DefaultBaseUrl)).val)

\* ResolveModel with the environment consulted before the argument
ResolveModel_EnvFirst(a, e) ==
    IF e["HOLODECK_MODEL"].some THEN e["HOLODECK_MODEL"].val
    ELSE PyOr(a.model, Some(DefaultModel)).val

\* self.model
ResolveModel(a, e) ==
    PyOr(a.model, Some(GetenvDefault(e, "HOLODECK_MODEL", DefaultModel))).val

\* ResolveTrustEnv without .lower()
ResolveTrustEnv_NoLower(a, e) ==
    IF ~a.trust_env.some
    THEN GetenvDefault(e, "HOLODECK_TRUST_ENV", "0") \in {"1", "true", "yes"}
    ELSE a.trust_env.val

\* self.session.trust_env
ResolveTrustEnv(a, e) ==
    IF ~a.trust_env.some
    THEN Lower(GetenvDefault(e, "HOLODECK_TRUST_ENV", "0")) \in {"1", "true", "yes"}
    ELSE a.trust_env.val

EndpointPrimary(base) == base \o "/v1/chat/completions"

EndpointFallback(base) == base \o "/chat/completions"

\* the instance as __init__ leaves it
Construct(a, e) ==
    [api_key           |-> ResolveApiKey(a, e),
     base_url          |-> ResolveBaseUrl(a, e),
     endpoint_primary  |-> EndpointPrimary(ResolveBaseUrl(a, e)),
     endpoint_fallback |-> EndpointFallback(ResolveBaseUrl(a, e)),
     model             |-> ResolveModel(a, e),
     max_tokens        |-> ArgOr(a.max_tokens, DefaultMaxTokens),
     temperature       |-> ArgOr(a.temperature, DefaultTemperature),
     timeout           |-> ArgOr(a.timeout, DefaultTimeout),
     trust_env         |-> ResolveTrustEnv(a, e)]

----------------------------------------------------------------------------
(* HTTP responses, as far as __call__ inspects them *)

\* r.status_code
Statuses == {200, 300, 401, 403, 404, 405, 422, 500}

Body(json, textLen, isDict, hasError, errIsDict, code, msgLen, msgIsStr, reprLen, hasContent, content) ==
    [json       |-> json,        \* r.json() succeeds
     textLen    |-> textLen,     \* len(r.text)
     isDict     |-> isDict,      \* data is a JSON object (else the list [])
     hasError   |-> hasError,    \* "error" in data
     errIsDict  |-> errIsDict,   \* data["error"] is a JSON object
     code       |-> code,        \* data["error"].get("code")
     msgLen     |-> msgLen,      \* size of data["error"].get("message"), 0 when falsy
     msgIsStr   |-> msgIsStr,    \* that message is a string
     reprLen    |-> reprLen,     \* len(str(data))
     hasContent |-> hasContent,  \* data["choices"][0]["message"]["content"] exists
     content    |-> content]

\* a body that is not JSON, of the given length
NonJsonBody(n) == Body(FALSE, n, FALSE, FALSE, FALSE, None, 0, TRUE, 0, FALSE, "")

\* {"error": {"code": code, "message": <msgLen characters>}}
ErrorBody(code, msgLen, reprLen) ==
    Body(TRUE, reprLen, TRUE, TRUE, TRUE, code, msgLen, TRUE, reprLen, FALSE, "")

\* {"error": {...}, "choices": [{"message": {"content": c}}]}
ErrorAndChoicesBody(code, msgLen, reprLen, c) ==
    Body(TRUE, reprLen, TRUE, TRUE, TRUE, code, msgLen, TRUE, reprLen, TRUE, c)

\* {"error": "boom"}: the error member is not an object
ErrorStringBody == Body(TRUE, 17, TRUE, TRUE, FALSE, None, 0, TRUE, 17, FALSE, "")

\* {"error": {"message": 5}}: the message is not a string
ErrorNumberBody == Body(TRUE, 25, TRUE, TRUE, TRUE, None, 1, FALSE, 25, FALSE, "")

\* {"choices": [{"message": {"content": c}}]}
ChoicesBody(c) == Body(TRUE, 45 + Len(c), TRUE, FALSE, FALSE, None, 0, TRUE, 45 + Len(c), TRUE, c)

\* {}
EmptyObjectBody == Body(TRUE, 2, TRUE, FALSE, FALSE, None, 0, TRUE, 2, FALSE, "")

\* []
EmptyListBody == Body(TRUE, 2, FALSE, FALSE, FALSE, None, 0, TRUE, 2, FALSE, "")

Contents == {"A wooden chair.", ""}

Bodies ==
    { NonJsonBody(n) : n \in {12, 301, 501} }
    \cup { ErrorBody(None, 0, 13),
           ErrorBody(Some("unknown_model"), 9, 60),
           ErrorBody(Some("unknown_model"), 301, 352),
           ErrorBody(None, 0, 400),
           ErrorAndChoicesBody(Some("unknown_model"), 9, 110, "A wooden chair."),
           ErrorStringBody, ErrorNumberBody, EmptyObjectBody, EmptyListBody }
    \cup { ChoicesBody(c) : c \in Contents }

\* what session.post does: it returns a response, or it raises
\* (connection failure, timeout)
Responses ==
    [ok : {TRUE}, status : Statuses, body : Bodies]
    \cup {[ok |-> FALSE, status |-> 0, body |-> NonJsonBody(0)]}

----------------------------------------------------------------------------
(* how one loop iteration or the whole call ends *)

NoOutcome ==
    [kind |-> "none", value |-> None, exc |-> "", tag |-> "", url |-> None,
     status |-> None, code |-> None, excerpt |-> None]

\* `continue`: go on with the next url
Continue == [NoOutcome EXCEPT !.kind = "continue"]

\* `return v`
Return(v) == [NoOutcome EXCEPT !.kind = "return", !.value = Some(v)]

\* an exception of class exc; for a RuntimeError, tag is the fixed text of its
\* message and url, status, code, excerpt are what the message interpolates
Raise(exc, tag, url, status, code, excerpt) ==
    [kind |-> "raise", value |-> None, exc |-> exc, tag |-> tag, url |-> url,
     status |-> status, code |-> code, excerpt |-> excerpt]

----------------------------------------------------------------------------
(* _post and the body of the loop of __call__ *)

\* the headers _post sends
Headers(c) ==
    [Authorization          |-> "Bearer " \o c.api_key.val,
     ContentType            |-> "application/json",
     Accept                 |-> "application/vnd.github+json",
     XGitHubApiVersion      |-> "2022-11-28"]

\* the payload __call__ builds before the loop
Payload(c, p) ==
    [model       |-> c.model,
     messages    |-> <<[role |-> "user", content |-> p]>>,
     max_tokens  |-> c.max_tokens,
     temperature |-> c.temperature]

\* Endpoints with the two urls in the other order
Endpoints_Swapped(c) == <<c.endpoint_fallback, c.endpoint_primary>>

\* Endpoints with the primary url tried once more at the end
Endpoints_Three(c) == <<c.endpoint_primary, c.endpoint_fallback, c.endpoint_primary>>

\* the tuple the loop iterates over
Endpoints(c) == <<c.endpoint_primary, c.endpoint_fallback>>

\* Request with the payload rebuilt, without temperature, for the fallback
Request_RebuiltPayload(c, url, pl) ==
    [url     |-> url,
     headers |-> Headers(c),
     json    |-> IF url = c.endpoint_primary THEN pl
                 ELSE [model |-> pl.model, messages |-> pl.messages,
                       max_tokens |-> pl.max_tokens],
     timeout |-> c.timeout]

\* the request session.post is given for url
Request(c, url, pl) ==
    [url |-> url, headers |-> Headers(c), json |-> pl, timeout |-> c.timeout]

\* NoApiKey as `if self.api_key is None`
NoApiKey_NoneOnly(c) == ~c.api_key.some

\* `if not self.api_key`
NoApiKey(c) == ~Truthy(c.api_key)

\* the statuses for which a body that is not JSON means "unauthorized"
UnauthorizedStatus(status) == status \in {401, 403}

\* NonJsonRetryStatus without 405
NonJsonRetryStatus_Only404(status) == status = 404

\* NonJsonRetryStatus with 422 added
NonJsonRetryStatus_With422(status) == status \in {404, 405, 422}

\* the statuses for which a body that is not JSON makes the loop go on
NonJsonRetryStatus(status) == status \in {404, 405}

\* the `except` branch: r.json() raised
NonJsonBranch(url, r) ==
    IF UnauthorizedStatus(r.status)
    THEN Raise("RuntimeError", "Unauthorized at", Some(url), None, None,
               Some(Slice(r.body.textLen, 300)))
    ELSE IF NonJsonRetryStatus(r.status)
    THEN Continue
    ELSE Raise("RuntimeError", "Non-JSON response", Some(url), Some(r.status),
               None, Some(Slice(r.body.textLen, 500)))

\* `"error" in data`: a key of the object; the list [] has no element "error"
HasErrorKey(data) == data.isDict /\ data.hasError

\* IsErrorResponse without the test for the error member
IsErrorResponse_StatusOnly(r) == r.status >= 300

\* `r.status_code >= 300 or "error" in data`
IsErrorResponse(r) == r.status >= 300 \/ HasErrorKey(r.body)

\* JsonRetry without the test for the primary endpoint
JsonRetry_AnyEndpoint(c, url, status) == status \in {404, 422}

\* JsonRetry without the test of the status
JsonRetry_AnyStatus(c, url, status) == url = c.endpoint_primary

\* `url == self.endpoint_primary and r.status_code in (404, 422)`
JsonRetry(c, url, status) == url = c.endpoint_primary /\ status \in {404, 422}

\* the branch taken for an error response whose body is JSON
ErrorBranch(c, url, r) ==
    IF ~r.body.isDict \/ (r.body.hasError /\ ~r.body.errIsDict)
    THEN \* data.get on a list, err.get on a string
         Raise("AttributeError", "", None, None, None, None)
    ELSE LET code == IF r.body.hasError THEN r.body.code ELSE None
             msg  == IF r.body.hasError /\ r.body.msgLen > 0
                     THEN r.body.msgLen ELSE r.body.reprLen
         IN  IF JsonRetry(c, url, r.status)
             THEN Continue
             ELSE IF r.body.hasError /\ r.body.msgLen > 0 /\ ~r.body.msgIsStr
             THEN \* msg[:300] on a message that is not a string
                  Raise("TypeError", "", None, None, None, None)
             ELSE Raise("RuntimeError", "GitHub Models API error", None,
                        Some(r.status), code, Some(Slice(msg, 300)))

\* ExtractContent reading the role of the message instead of its content
ExtractContent_Role(data) ==
    IF ~data.isDict THEN Raise("TypeError", "", None, None, None, None)
    ELSE IF ~data.hasContent THEN Raise("KeyError", "", None, None, None, None)
    ELSE Return("assistant")

\* `return data["choices"][0]["message"]["content"]`
ExtractContent(data) ==
    IF ~data.isDict THEN Raise("TypeError", "", None, None, None, None)
    ELSE IF ~data.hasContent THEN Raise("KeyError", "", None, None, None, None)
    ELSE Return(data.content)

\* one iteration of the loop, for the response r of url
Classify(c, url, r) ==
    IF ~r.ok THEN Raise("RequestException", "", None, None, None, None)
    ELSE IF ~r.body.json THEN NonJsonBranch(url, r)
    ELSE IF IsErrorResponse(r) THEN ErrorBranch(c, url, r)
    ELSE ExtractContent(r.body)

\* the raise after the loop
Exhausted ==
    Raise("RuntimeError", "Failed to reach a working chat/completions endpoint",
          None, None, None, None)

\* the raise before any request
MissingKey == Raise("RuntimeError", "No API key", None, None, None, None)

----------------------------------------------------------------------------
(* the state machine *)

Prompts == {"describe a chair", "a room"}

NoArgs ==
    [api_key |-> None, base_url |-> None, model |-> None, max_tokens |-> None,
     temperature |-> None, timeout |-> None, trust_env |-> None]

\* the arguments of the constructor
ArgsSet ==
    { NoArgs,
      [NoArgs EXCEPT !.api_key = Some("")],
      [NoArgs EXCEPT !.api_key = Some("tok")],
      [NoArgs EXCEPT !.api_key = Some("tok"), !.base_url = Some("http://gw//")] }

NoEnv ==
    [GITHUB_TOKEN |-> None, GH_TOKEN |-> None, OPENAI_API_KEY |-> None,
     OPENAI_API_BASE |-> None, OPENAI_BASE_URL |-> None,
     HOLODECK_MODEL |-> None, HOLODECK_TRUST_ENV |-> None]

\* the environment of the process
EnvSet ==
    { NoEnv,
      [NoEnv EXCEPT !.GITHUB_TOKEN = Some("ghp")],
      [NoEnv EXCEPT !.OPENAI_API_KEY = Some("")] }

\* what the caller keeps of a finished call
Summary(o) == [kind |-> o.kind, exc |-> o.exc, tag |-> o.tag]

Init ==
    /\ args \in ArgsSet
    /\ env \in EnvSet
    /\ client = Construct(args, env)
    /\ pc = "idle"
    /\ prompt = ""
    /\ payload = None
    /\ idx = 0
    /\ calls = <<>>
    /\ outcome = NoOutcome
    /\ invocations = 0
    /\ lastOutcome = Summary(NoOutcome)

\* __call__ up to the loop
Call(p) ==
    /\ pc = "idle"
    /\ invocations < MaxInvocations
    /\ invocations' = invocations + 1
    /\ prompt' = p
    /\ calls' = <<>>
    /\ IF NoApiKey(client)
       THEN /\ outcome' = MissingKey
            /\ pc' = "done"
            /\ payload' = None
            /\ idx' = 0
       ELSE /\ outcome' = NoOutcome
            /\ pc' = "post"
            /\ payload' = Some(Payload(client, p))
            /\ idx' = 1
    /\ UNCHANGED <<args, env, client, lastOutcome>>

\* Attempt that keeps the fallback url as the primary one once the fallback
\* has returned the content
Attempt_RemembersEndpoint(r) ==
    /\ pc = "post"
    /\ LET url == Endpoints(client)[idx]
           res == Classify(client, url, r)
       IN  /\ calls' = Append(calls, [request  |-> Request(client, url, payload.val),
                                      response |-> r])
           /\ client' = IF res.kind = "return" /\ idx = 2
                        THEN [client EXCEPT !.endpoint_primary = url]
                        ELSE client
           /\ IF res.kind = "continue"
              THEN IF idx < Len(Endpoints(client))
                   THEN /\ idx' = idx + 1
                        /\ UNCHANGED <<pc, outcome>>
                   ELSE /\ outcome' = Exhausted
                        /\ pc' = "done"
                        /\ UNCHANGED idx
              ELSE /\ outcome' = res
                   /\ pc' = "done"
                   /\ UNCHANGED idx
    /\ UNCHANGED <<args, env, prompt, payload, invocations, lastOutcome>>

\* one iteration of the loop: post to the current url, classify the response
Attempt(r) ==
    /\ pc = "post"
    /\ LET url == Endpoints(client)[idx]
           res == Classify(client, url, r)
       IN  /\ calls' = Append(calls, [request  |-> Request(client, url, payload.val),
                                      response |-> r])
           /\ IF res.kind = "continue"
              THEN IF idx < Len(Endpoints(client))
                   THEN /\ idx' = idx + 1
                        /\ UNCHANGED <<pc, outcome>>
                   ELSE /\ outcome' = Exhausted
                        /\ pc' = "done"
                        /\ UNCHANGED idx
              ELSE /\ outcome' = res
                   /\ pc' = "done"
                   /\ UNCHANGED idx
    /\ UNCHANGED <<args, env, client, prompt, payload, invocations, lastOutcome>>

\* the call ends: the caller has the result, the locals are gone
Finish ==
    /\ pc = "done"
    /\ pc' = "idle"
    /\ lastOutcome' = Summary(outcome)
    /\ outcome' = NoOutcome
    /\ calls' = <<>>
    /\ payload' = None
    /\ prompt' = ""
    /\ idx' = 0
    /\ UNCHANGED <<args, env, client, invocations>>

Next ==
    \/ \E p \in Prompts : Call(p)
    \/ \E r \in Responses : Attempt(r)
    \/ Finish

Spec == Init /\ [][Next]_vars

TypeOK ==
    /\ pc \in {"idle", "post", "done"}
    /\ idx \in 0..2
    /\ invocations \in 0..MaxInvocations
    /\ Len(calls) <= 2
    /\ outcome.kind \in {"none", "return", "raise"}

----------------------------------------------------------------------------
(* the same client, over the constructions that exercise the resolver *)

OptionOf(S) == {None} \cup {Some(v) : v \in S}

KeyedArgs == [NoArgs EXCEPT !.api_key = Some("tok")]

\* arguments and environment that decide the credential
CredentialConfigs ==
    { <<[NoArgs EXCEPT !.api_key = k], [NoEnv EXCEPT !.GITHUB_TOKEN = g, !.GH_TOKEN = h, !.OPENAI_API_KEY = o]>> :
        k \in OptionOf({"", "tok"}), g \in OptionOf({"", "ghp"}),
        h \in OptionOf({"gh"}), o \in OptionOf({"", "sk"}) }

\* arguments and environment that decide the base url
BaseUrlConfigs ==
    { <<[KeyedArgs EXCEPT !.base_url = b], [NoEnv EXCEPT !.OPENAI_API_BASE = x, !.OPENAI_BASE_URL = y]>> :
        b \in OptionOf({"", "http://gw//"}), x \in OptionOf({"", "http://a/"}),
        y \in OptionOf({"http://b"}) }

\* arguments and environment that decide the model
ModelConfigs ==
    { <<[KeyedArgs EXCEPT !.model = m], [NoEnv EXCEPT !.HOLODECK_MODEL = x]>> :
        m \in OptionOf({"", "my/model"}), x \in OptionOf({"", "env/model"}) }

\* arguments and environment that decide the proxy-trust flag
TrustConfigs ==
    { <<[KeyedArgs EXCEPT !.trust_env = t], [NoEnv EXCEPT !.HOLODECK_TRUST_ENV = x]>> :
        t \in OptionOf(BOOLEAN),
        x \in OptionOf({"1", "true", "TRUE", "Yes", "0", "no", "on", ""}) }

ResolverConfigs == CredentialConfigs \cup BaseUrlConfigs \cup ModelConfigs \cup TrustConfigs

\* the responses the calls of these clients get
ResolverResponses ==
    { [ok |-> TRUE, status |-> 200, body |-> ChoicesBody("A wooden chair.")],
      [ok |-> TRUE, status |-> 404, body |-> NonJsonBody(12)],
      [ok |-> TRUE, status |-> 401, body |-> NonJsonBody(12)] }

InitResolver ==
    /\ \E cfg \in ResolverConfigs : args = cfg[1] /\ env = cfg[2]
    /\ client = Construct(args, env)
    /\ pc = "idle"
    /\ prompt = ""
    /\ payload = None
    /\ idx = 0
    /\ calls = <<>>
    /\ outcome = NoOutcome
    /\ invocations = 0
    /\ lastOutcome = Summary(NoOutcome)

NextResolver ==
    \/ \E p \in Prompts : Call(p)
    \/ \E r \in ResolverResponses : Attempt(r)
    \/ Finish

SpecResolver == InitResolver /\ [][NextResolver]_vars

----------------------------------------------------------------------------
(* two calls in flight on the one client.  Here each variable that holds a
   local of __call__ (pc, prompt, payload, idx, calls, outcome) and
   lastOutcome is a function of the thread that runs the call; args, env and
   client are the one shared instance.  A step is what a thread does between
   two HTTP calls. *)

Threads == {1, 2}

\* the responses the interleaved calls get: one of each way a loop
\* iteration can end
ConcurrentResponses ==
    { [ok |-> TRUE, status |-> 200, body |-> ChoicesBody("A wooden chair.")],
      [ok |-> TRUE, status |-> 200, body |-> EmptyObjectBody],
      [ok |-> TRUE, status |-> 404, body |-> NonJsonBody(12)],
      [ok |-> TRUE, status |-> 401, body |-> NonJsonBody(12)],
      [ok |-> TRUE, status |-> 500, body |-> NonJsonBody(501)],
      [ok |-> TRUE, status |-> 422, body |-> ErrorBody(Some("unknown_model"), 9, 60)],
      [ok |-> TRUE, status |-> 500, body |-> ErrorBody(None, 0, 13)],
      [ok |-> FALSE, status |-> 0, body |-> NonJsonBody(0)] }

InitConcurrent ==
    /\ args \in ArgsSet
    /\ env \in EnvSet
    /\ client = Construct(args, env)
    /\ pc = [t \in Threads |-> "idle"]
    /\ prompt = [t \in Threads |-> ""]
    /\ payload = [t \in Threads |-> None]
    /\ idx = [t \in Threads |-> 0]
    /\ calls = [t \in Threads |-> <<>>]
    /\ outcome = [t \in Threads |-> NoOutcome]
    /\ invocations = 0
    /\ lastOutcome = [t \in Threads |-> Summary(NoOutcome)]

\* thread t enters __call__ and runs it up to the loop
CallT(t, p) ==
    /\ pc[t] = "idle"
    /\ invocations < MaxInvocations
    /\ invocations' = invocations + 1
    /\ prompt' = [prompt EXCEPT ![t] = p]
    /\ calls' = [calls EXCEPT ![t] = <<>>]
    /\ IF NoApiKey(client)
       THEN /\ outcome' = [outcome EXCEPT ![t] = MissingKey]
            /\ pc' = [pc EXCEPT ![t] = "done"]
            /\ payload' = [payload EXCEPT ![t] = None]
            /\ idx' = [idx EXCEPT ![t] = 0]
       ELSE /\ outcome' = [outcome EXCEPT ![t] = NoOutcome]
            /\ pc' = [pc EXCEPT ![t] = "post"]
            /\ payload' = [payload EXCEPT ![t] = Some(Payload(client, p))]
            /\ idx' = [idx EXCEPT ![t] = 1]
    /\ UNCHANGED <<args, env, client, lastOutcome>>

\* AttemptT with the position in the tuple of urls kept on the instance
\* instead of in a local of the call: a thread posts to the url another call
\* in flight has moved the position to
AttemptT_SharedPosition(t, r) ==
    /\ pc[t] = "post"
    /\ LET others == {u \in Threads \ {t} : pc[u] = "post"}
           pos == IF others = {} THEN idx[t] ELSE idx[CHOOSE u \in others : TRUE]
           url == Endpoints(client)[pos]
           res == Classify(client, url, r)
       IN  /\ calls' = [calls EXCEPT ![t] =
                           Append(calls[t], [request  |-> Request(client, url, payload[t].val),
                                             response |-> r])]
           /\ IF res.kind = "continue"
              THEN IF idx[t] < Len(Endpoints(client))
                   THEN /\ idx' = [idx EXCEPT ![t] = idx[t] + 1]
                        /\ UNCHANGED <<pc, outcome>>
                   ELSE /\ outcome' = [outcome EXCEPT ![t] = Exhausted]
                        /\ pc' = [pc EXCEPT ![t] = "done"]
                        /\ UNCHANGED idx
              ELSE /\ outcome' = [outcome EXCEPT ![t] = res]
                   /\ pc' = [pc EXCEPT ![t] = "done"]
                   /\ UNCHANGED idx
    /\ UNCHANGED <<args, env, client, prompt, payload, invocations, lastOutcome>>

\* thread t runs one iteration of its loop: it posts to its current url and
\* classifies the response
AttemptT(t, r) ==
    /\ pc[t] = "post"
    /\ LET url == Endpoints(client)[idx[t]]
           res == Classify(client, url, r)
       IN  /\ calls' = [calls EXCEPT ![t] =
                           Append(calls[t], [request  |-> Request(client, url, payload[t].val),
                                             response |-> r])]
           /\ IF res.kind = "continue"
              THEN IF idx[t] < Len(Endpoints(client))
                   THEN /\ idx' = [idx EXCEPT ![t] = idx[t] + 1]
                        /\ UNCHANGED <<pc, outcome>>
                   ELSE /\ outcome' = [outcome EXCEPT ![t] = Exhausted]
                        /\ pc' = [pc EXCEPT ![t] = "done"]
                        /\ UNCHANGED idx
              ELSE /\ outcome' = [outcome EXCEPT ![t] = res]
                   /\ pc' = [pc EXCEPT ![t] = "done"]
                   /\ UNCHANGED idx
    /\ UNCHANGED <<args, env, client, prompt, payload, invocations, lastOutcome>>

\* the call of thread t ends: its caller has the result, its locals are gone
FinishT(t) ==
    /\ pc[t] = "done"
    /\ pc' = [pc EXCEPT ![t] = "idle"]
    /\ lastOutcome' = [lastOutcome EXCEPT ![t] = Summary(outcome[t])]
    /\ outcome' = [outcome EXCEPT ![t] = NoOutcome]
    /\ calls' = [calls EXCEPT ![t] = <<>>]
    /\ payload' = [payload EXCEPT ![t] = None]
    /\ prompt' = [prompt EXCEPT ![t] = ""]
    /\ idx' = [idx EXCEPT ![t] = 0]
    /\ UNCHANGED <<args, env, client, invocations>>

NextConcurrent ==
    \/ \E t \in Threads : \E p \in Prompts : CallT(t, p)
    \/ \E t \in Threads : \E r \in ConcurrentResponses : AttemptT(t, r)
    \/ \E t \in Threads : FinishT(t)

SpecConcurrent == InitConcurrent /\ [][NextConcurrent]_vars

----------------------------------------------------------------------------
(* vocabulary of the properties *)

\* the terminal outcome in the terms of the failure taxonomy: each
\* RuntimeError of __call__ is told by the fixed text of its message; any
\* other exception that leaves __call__ is outside the taxonomy
KindOf(o) ==
    IF o.kind = "return" THEN "Succeeded"
    ELSE IF o.kind # "raise" THEN "None"
    ELSE IF o.exc # "RuntimeError" THEN o.exc
    ELSE CASE o.tag = "No API key" -> "ConfigError"
           [] o.tag = "Unauthorized at" -> "Unauthorized"
           [] o.tag = "Non-JSON response" -> "TransportError"
           [] o.tag = "GitHub Models API error" -> "ModelError"
           [] o.tag = "Failed to reach a working chat/completions endpoint"
                -> "EndpointUnavailable"
           [] OTHER -> "Unknown"

FailureKinds ==
    {"Unauthorized", "EndpointUnavailable", "ModelError", "TransportError",
     "ConfigError"}

\* status < 300, a JSON object without an error member and with the path
\* choices[0].message.content
SuccessShaped(r) ==
    /\ r.ok
    /\ r.status < 300
    /\ r.body.json
    /\ r.body.isDict
    /\ ~r.body.hasError
    /\ r.body.hasContent

\* a JSON object whose error member is an object with a string as its
\* message, if it has one
StructuredError(r) ==
    /\ r.ok /\ r.body.json /\ r.body.isDict
    /\ r.body.hasError /\ r.body.errIsDict /\ r.body.msgIsStr

NonJson(r) == r.ok /\ ~r.body.json

\* a response whose body is text that is not JSON, or a JSON object whose
\* error member, if any, is an object with a string as its message, if any
PlainResponse(r) ==
    /\ r.ok
    /\ r.body.json =>
          (r.body.isDict /\ (r.body.hasError => (r.body.errIsDict /\ r.body.msgIsStr)))

PrimaryUrl == client.base_url \o "/v1/chat/completions"

FallbackUrl == client.base_url \o "/chat/completions"

----------------------------------------------------------------------------
(* C1 *)

\* C1: with a non-empty credential, when the response of the primary endpoint
\* has status < 300 and a JSON body without an error member and with
\* choices[0].message.content, the call ends at once returning exactly that
\* content, after exactly one HTTP call, made to the primary URL.
C1_PrimarySuccessReturnsContent ==
    (Len(calls) >= 1 /\ SuccessShaped(calls[1].response))
        => /\ pc = "done"
           /\ outcome = Return(calls[1].response.body.content)
           /\ Len(calls) = 1
           /\ calls[1].request.url = PrimaryUrl
           /\ calls[1].request.url # FallbackUrl

C1_Witness ==
    /\ pc = "done"
    /\ prompt = "describe a chair"
    /\ Len(calls) = 1
    /\ calls[1].response = [ok |-> TRUE, status |-> 200,
                            body |-> ChoicesBody("A wooden chair.")]
    /\ outcome = Return("A wooden chair.")

----------------------------------------------------------------------------
(* C2 *)

\* C2: whenever an endpoint answers with status 401 or 403, whatever the
\* body (text that is not JSON, a JSON object with an error member, a JSON
\* object without one), the call ends with Unauthorized and makes no further
\* HTTP call.
C2_Claim_AnyBody401IsUnauthorized ==
    \A i \in 1..Len(calls) :
        (PlainResponse(calls[i].response) /\ calls[i].response.status \in {401, 403})
            => /\ i = Len(calls)
               /\ pc = "done"
               /\ KindOf(outcome) = "Unauthorized"

----------------------------------------------------------------------------
(* C3 *)

BothStructured422 ==
    /\ Len(calls) = 2
    /\ StructuredError(calls[1].response) /\ calls[1].response.status = 422
    /\ StructuredError(calls[2].response) /\ calls[2].response.status = 422

\* C3 as stated: when both endpoints answer 422 with a structured error, the
\* call ends with EndpointUnavailable and not with ModelError.
C3_Claim_Both422IsEndpointUnavailable ==
    BothStructured422
        => (pc = "done" /\ KindOf(outcome) = "EndpointUnavailable")

\* C3 as amended: when the primary and then the fallback endpoint both answer
\* 422 with a structured error, the call ends after these two calls with
\* ModelError, carrying the fallback's status 422, and not with
\* EndpointUnavailable.
C3_Both422IsModelError ==
    BothStructured422
        => /\ pc = "done"
           /\ KindOf(outcome) = "ModelError"
           /\ outcome.status = Some(422)
           /\ calls[2].request.url = FallbackUrl

C3_Witness ==
    /\ pc = "done"
    /\ BothStructured422
    /\ KindOf(outcome) = "ModelError"

----------------------------------------------------------------------------
(* C4 *)

\* C4: every call ends as Succeeded(content) or as a failure of one of the
\* five kinds, whatever the status and the body shape of the responses (text
\* that is not JSON, or a JSON object, also one with status < 300 that lacks
\* choices[0].message.content).
C4_Claim_OutcomeInTaxonomy ==
    (pc = "done" /\ \A i \in 1..Len(calls) : PlainResponse(calls[i].response))
        => KindOf(outcome) \in {"Succeeded"} \cup FailureKinds

----------------------------------------------------------------------------
(* C5 *)

\* C5: a client whose credential is unset or empty exists after construction,
\* and each of its calls ends with ConfigError before any HTTP call: the
\* call never reaches the loop and its call log stays empty.
C5_EmptyCredentialIsConfigError ==
    (~client.api_key.some \/ client.api_key.val = "")
        => /\ pc # "post"
           /\ Len(calls) = 0
           /\ (pc = "done" => KindOf(outcome) = "ConfigError")
           /\ (pc = "idle" /\ invocations > 0 => lastOutcome = Summary(MissingKey))

C5_Witness ==
    /\ args.api_key = None
    /\ \A n \in {"GITHUB_TOKEN", "GH_TOKEN", "OPENAI_API_KEY"} : env[n] = None
    /\ client.api_key = None
    /\ pc = "done"
    /\ outcome = MissingKey
    /\ calls = <<>>

----------------------------------------------------------------------------
(* C6 *)

PrimaryNonJson404 ==
    /\ Len(calls) >= 1
    /\ NonJson(calls[1].response)
    /\ calls[1].response.status \in {404, 405}

\* C6: when the primary endpoint answers 404 or 405 with a body that is not
\* JSON, the call has no result yet after that response, its next step is the
\* request to the fallback URL, and when it has its result or error exactly
\* one more HTTP call has been made, to the fallback URL.
C6_NonJson404CallsFallbackOnce ==
    PrimaryNonJson404
        => /\ Len(calls) = 1 => (pc = "post" /\ outcome = NoOutcome
                                   /\ Endpoints(client)[idx] = FallbackUrl)
           /\ pc = "done" => (Len(calls) = 2 /\ calls[2].request.url = FallbackUrl)
           /\ Len(calls) <= 2

C6_Witness ==
    /\ pc = "done"
    /\ Len(calls) = 2
    /\ NonJson(calls[1].response)
    /\ calls[1].response.status = 405
    /\ calls[2].request.url = FallbackUrl

----------------------------------------------------------------------------
(* C7 *)

\* C7: with a non-empty credential, a call that has reached its terminal
\* outcome has made exactly 1 or exactly 2 HTTP calls, whatever the two
\* endpoints answered; at no moment has a call made more than 2.
C7_OneOrTwoCalls ==
    /\ Len(calls) <= 2
    /\ (pc = "done" /\ Truthy(client.api_key)) => Len(calls) \in {1, 2}

C7_Witness ==
    /\ pc = "done"
    /\ Truthy(client.api_key)
    /\ Len(calls) = 2
    /\ KindOf(outcome) = "EndpointUnavailable"

----------------------------------------------------------------------------
(* C8 *)

\* C8: in every call made on the client, whatever earlier calls ended with,
\* the first HTTP call goes to base_url + "/v1/chat/completions" and the
\* second, if there is one, to base_url + "/chat/completions"; there is no
\* third.
C8_EndpointOrder ==
    /\ Len(calls) <= 2
    /\ Len(calls) >= 1 => calls[1].request.url = client.base_url \o "/v1/chat/completions"
    /\ Len(calls) >= 2 => calls[2].request.url = client.base_url \o "/chat/completions"
    /\ \A i \in 1..Len(calls) : \A j \in 1..Len(calls) :
           i # j => calls[i].request.url # calls[j].request.url

C8_Witness ==
    /\ invocations = 2
    /\ lastOutcome.kind = "raise"
    /\ Len(calls) = 2
    /\ client.base_url = "http://gw"

----------------------------------------------------------------------------
(* C9 *)

\* C9: when a call makes two HTTP calls, the fallback request carries the
\* same payload and the same headers as the primary request, and the payload
\* is {model, messages: [{role: "user", content: prompt}], max_tokens,
\* temperature} built from the client's configuration and the prompt.
C9_SamePayloadAndHeaders ==
    Len(calls) = 2
        => /\ calls[2].request.json = calls[1].request.json
           /\ calls[2].request.headers = calls[1].request.headers
           /\ calls[1].request.json =
                  [model       |-> client.model,
                   messages    |-> <<[role |-> "user", content |-> prompt]>>,
                   max_tokens  |-> client.max_tokens,
                   temperature |-> client.temperature]

C9_Witness ==
    /\ Len(calls) = 2
    /\ prompt = "a room"
    /\ calls[2].request.url = FallbackUrl
    /\ calls[2].request.json.messages[1].content = "a room"
    /\ calls[2].request.headers.Authorization = "Bearer tok"

----------------------------------------------------------------------------
(* C10 *)

\* C10: every failure caused by a response of an endpoint (Unauthorized,
\* ModelError, TransportError, EndpointUnavailable) carries its
\* classification, the URL of the endpoint, the status of the response and a
\* bounded excerpt of the body.
C10_Claim_FailureCarriesDiagnosis ==
    (pc = "done" /\ KindOf(outcome) \in FailureKinds \ {"ConfigError"})
        => /\ outcome.url.some
           /\ outcome.status.some
           /\ outcome.excerpt.some
           /\ outcome.excerpt.val <= 500

----------------------------------------------------------------------------
(* C11 *)

\* C11 as stated: the model is the explicit model argument whenever one is
\* given, else the value of HOLODECK_MODEL when it is set, else
\* "openai/gpt-4o-mini".
C11_Claim_ExplicitModelAlwaysWins ==
    client.model =
        IF args.model.some THEN args.model.val
        ELSE IF env["HOLODECK_MODEL"].some THEN env["HOLODECK_MODEL"].val
        ELSE "openai/gpt-4o-mini"

\* C11 as amended: the model is the explicit model argument when a non-empty
\* one is given, else the value of HOLODECK_MODEL when it is set, else
\* "openai/gpt-4o-mini"; and it stays so through every call.
C11_ModelPrecedence ==
    client.model =
        IF args.model.some /\ args.model.val # "" THEN args.model.val
        ELSE IF env["HOLODECK_MODEL"].some THEN env["HOLODECK_MODEL"].val
        ELSE "openai/gpt-4o-mini"

C11_Witness ==
    /\ args.model = Some("my/model")
    /\ env["HOLODECK_MODEL"] = Some("env/model")
    /\ client.model = "my/model"
    /\ Len(calls) = 1
    /\ calls[1].request.json.model = "my/model"

----------------------------------------------------------------------------
(* C12 *)

\* the first variable of the list that is set to a non-empty value
RECURSIVE FirstNonEmpty(_, _)
FirstNonEmpty(e, names) ==
    IF names = <<>> THEN None
    ELSE IF e[Head(names)].some /\ e[Head(names)].val # "" THEN e[Head(names)]
    ELSE FirstNonEmpty(e, Tail(names))

\* the explicit argument if a non-empty one is provided, else the first
\* non-empty variable of the list, else the default
Picked(arg, e, names, default) ==
    IF arg.some /\ arg.val # "" THEN arg
    ELSE IF FirstNonEmpty(e, names).some THEN FirstNonEmpty(e, names)
    ELSE default

\* C12: credential, base url and model are each the explicit argument if
\* provided, else the first non-empty value among the field's environment
\* variables, else the hardcoded default (none for the credential, which is
\* then unset or empty); a variable set to the empty string is skipped and
\* never becomes the resolved value.  The base url is kept without its
\* trailing slashes.
C12_Claim_FirstNonEmptyWins ==
    /\ LET k == Picked(args.api_key, env, <<"GITHUB_TOKEN", "GH_TOKEN", "OPENAI_API_KEY">>, None)
       IN  IF k.some THEN client.api_key = k ELSE ~Truthy(client.api_key)
    /\ client.base_url =
           Rstrip(Picked(args.base_url, env, <<"OPENAI_API_BASE", "OPENAI_BASE_URL">>,
                         Some("https://models.github.ai/inference")).val)
    /\ client.model =
           Picked(args.model, env, <<"HOLODECK_MODEL">>, Some("openai/gpt-4o-mini")).val

----------------------------------------------------------------------------
(* C13 *)

\* the spellings of "1", "true", "yes" in any case
AffirmativeSpellings ==
    {"1", "true", "True", "TRUE", "yes", "Yes", "YES"}

\* C13: at every moment, before and after any call, the proxy-trust flag is
\* the explicit trust_env argument when one is given (true or false), and
\* otherwise it is enabled exactly when HOLODECK_TRUST_ENV is set to "1",
\* "true" or "yes" in any case; it is disabled in every other case.
C13_TrustEnvFlag ==
    client.trust_env =
        IF args.trust_env.some THEN args.trust_env.val
        ELSE /\ env["HOLODECK_TRUST_ENV"].some
             /\ env["HOLODECK_TRUST_ENV"].val \in AffirmativeSpellings

C13_Witness ==
    /\ ~args.trust_env.some
    /\ env["HOLODECK_TRUST_ENV"] = Some("TRUE")
    /\ client.trust_env = TRUE
    /\ pc = "idle"
    /\ invocations = 2
    /\ lastOutcome.kind = "return"

----------------------------------------------------------------------------
(* C14 *)

\* the call went on to the fallback endpoint after the primary response
AdvancedToFallback == Len(calls) >= 1 /\ (Len(calls) = 2 \/ (pc = "post" /\ idx = 2))

\* C14: a response of the primary endpoint whose body parses as JSON makes
\* the call go on to the fallback only if the body has a structured error
\* member and the status is 404 or 422; a parsed body without an error member
\* never does, nor does one with an error member under status 405.
C14_Claim_JsonRetryNeedsErrorField ==
    (AdvancedToFallback /\ calls[1].response.ok /\ calls[1].response.body.json)
        => /\ calls[1].response.body.isDict
           /\ calls[1].response.body.hasError
           /\ calls[1].response.status \in {404, 422}

----------------------------------------------------------------------------
(* C15 *)

\* C15: at either endpoint, a response whose body is not JSON and whose
\* status is none of 401, 403, 404, 405 (a status < 300 and 422 included) is
\* the last response of the call, which ends with TransportError.
C15_NonJsonOtherStatusIsTransportError ==
    \A i \in 1..Len(calls) :
        (NonJson(calls[i].response) /\ calls[i].response.status \notin {401, 403, 404, 405})
            => /\ i = Len(calls)
               /\ pc = "done"
               /\ KindOf(outcome) = "TransportError"
               /\ outcome.status = Some(calls[i].response.status)

C15_Witness ==
    /\ pc = "done"
    /\ Len(calls) = 2
    /\ NonJson(calls[2].response)
    /\ calls[2].response.status = 422
    /\ KindOf(outcome) = "TransportError"

----------------------------------------------------------------------------
(* C16 *)

\* C16: a response whose body parses as JSON and has a structured error
\* member (an object whose message, if any, is a string) is the last response
\* of the call, which ends with ModelError, whenever its status is not 401 or
\* 403 and either the status is outside {404, 422} (a status < 300 included)
\* or the response is the fallback's.
C16_StructuredErrorIsModelError ==
    \A i \in 1..Len(calls) :
        (/\ StructuredError(calls[i].response)
         /\ calls[i].response.status \notin {401, 403}
         /\ (calls[i].response.status \notin {404, 422} \/ calls[i].request.url = FallbackUrl))
            => /\ i = Len(calls)
               /\ pc = "done"
               /\ KindOf(outcome) = "ModelError"
               /\ outcome.status = Some(calls[i].response.status)

C16_Witness ==
    /\ pc = "done"
    /\ Len(calls) = 2
    /\ calls[2].request.url = FallbackUrl
    /\ StructuredError(calls[2].response)
    /\ calls[2].response.status = 404
    /\ KindOf(outcome) = "ModelError"

----------------------------------------------------------------------------
(* C17 *)

\* C17: when the call went on to the fallback and the fallback answers 404
\* or 405 with a body that is not JSON, the call ends with
\* EndpointUnavailable after exactly two HTTP calls.
C17_FallbackNonJson404IsEndpointUnavailable ==
    (Len(calls) >= 2 /\ NonJson(calls[2].response)
       /\ calls[2].response.status \in {404, 405})
        => /\ pc = "done"
           /\ Len(calls) = 2
           /\ KindOf(outcome) = "EndpointUnavailable"

C17_Witness ==
    /\ pc = "done"
    /\ Len(calls) = 2
    /\ StructuredError(calls[1].response)
    /\ calls[1].response.status = 422
    /\ NonJson(calls[2].response)
    /\ calls[2].response.status = 405
    /\ KindOf(outcome) = "EndpointUnavailable"

----------------------------------------------------------------------------
(* C18 *)

\* C18: within one call no HTTP call follows a response with status 401 or
\* 403, whatever its body, nor a response that is not JSON with a status
\* outside {404, 405}; the fallback is called only when the primary response
\* was not JSON with status 404 or 405, or was JSON with status 404 or 422.
C18_NoCallAfterTerminalResponse ==
    /\ \A i \in 1..Len(calls) :
          (calls[i].response.ok
             /\ (\/ calls[i].response.status \in {401, 403}
                 \/ (~calls[i].response.body.json
                       /\ calls[i].response.status \notin {404, 405})))
              => (i = Len(calls) /\ pc = "done")
    /\ AdvancedToFallback
          => /\ calls[1].response.ok
             /\ \/ (~calls[1].response.body.json /\ calls[1].response.status \in {404, 405})
                \/ (calls[1].response.body.json /\ calls[1].response.status \in {404, 422})

C18_Witness ==
    /\ pc = "done"
    /\ Len(calls) = 2
    /\ calls[1].response.body.json
    /\ calls[1].response.status = 404
    /\ calls[2].response.status = 403
    /\ calls[2].response.body.json

----------------------------------------------------------------------------
(* C19 *)

\* C19: whenever the call returns a string, the string is
\* choices[0].message.content of the last response of the call, received from
\* the primary endpoint or, after it, from the fallback, and that response had
\* a status < 300 and a JSON body without an error member; no response with a
\* status >= 300 or with an error member is returned from.
C19_ReturnIsContentOfLastSuccess ==
    outcome.kind = "return"
        => /\ pc = "done"
           /\ Len(calls) \in {1, 2}
           /\ LET last == calls[Len(calls)]
              IN  /\ last.response.ok
                  /\ last.response.status < 300
                  /\ last.response.body.json
                  /\ ~last.response.body.hasError
                  /\ last.response.body.hasContent
                  /\ outcome.value = Some(last.response.body.content)
                  /\ last.request.url = IF Len(calls) = 1 THEN PrimaryUrl ELSE FallbackUrl

C19_Witness ==
    /\ pc = "done"
    /\ Len(calls) = 2
    /\ calls[1].response.status = 404
    /\ calls[1].response.body.hasError
    /\ calls[1].response.body.hasContent
    /\ calls[2].response.status = 200
    /\ outcome = Return("A wooden chair.")

----------------------------------------------------------------------------
(* C20 *)

\* C20: no step of a call, whatever its outcome, changes a configuration
\* field of the client: credential, base_url, both endpoint urls, model,
\* max_tokens, temperature, timeout and the proxy-trust flag stay as the
\* constructor left them.
C20_ConfigUnchanged ==
    [][client' = client]_vars

C20_Witness ==
    /\ client = Construct(args, env)
    /\ pc = "idle"
    /\ invocations = 2
    /\ lastOutcome.kind = "return"
    /\ client.base_url = "http://gw"

----------------------------------------------------------------------------
(* C21 *)

\* a call run alone: its locals when it reaches the loop
AloneStart(c, p) ==
    IF NoApiKey(c)
    THEN [pc |-> "done", idx |-> 0, payload |-> None, calls |-> <<>>,
          outcome |-> MissingKey]
    ELSE [pc |-> "post", idx |-> 1, payload |-> Some(Payload(c, p)),
          calls |-> <<>>, outcome |-> NoOutcome]

\* a call run alone: its locals after the next response, r; a call that has
\* ended takes no response
AloneStep(c, st, r) ==
    IF st.pc # "post" THEN [st EXCEPT !.pc = "ended before this response"]
    ELSE LET url == Endpoints(c)[st.idx]
             res == Classify(c, url, r)
             log == Append(st.calls, [request  |-> Request(c, url, st.payload.val),
                                      response |-> r])
         IN  IF res.kind = "continue"
             THEN IF st.idx < Len(Endpoints(c))
                  THEN [st EXCEPT !.calls = log, !.idx = st.idx + 1]
                  ELSE [st EXCEPT !.calls = log, !.pc = "done", !.outcome = Exhausted]
             ELSE [st EXCEPT !.calls = log, !.pc = "done", !.outcome = res]

\* a call run alone with prompt p that has got the responses rs, in order
RECURSIVE AloneRun(_, _, _)
AloneRun(c, p, rs) ==
    IF rs = <<>> THEN AloneStart(c, p)
    ELSE AloneStep(c, AloneRun(c, p, SubSeq(rs, 1, Len(rs) - 1)), rs[Len(rs)])

\* the responses thread t has got in its current call
ResponsesOf(t) == [i \in 1..Len(calls[t]) |-> calls[t][i].response]

\* C21: when two calls on the same client are interleaved at the granularity
\* of HTTP calls, each call is at every moment where it would be had it run
\* alone with the same prompt and the same responses to its own HTTP calls:
\* same position in the loop, same requests in the same order (so the same
\* call count and urls), same payload, same outcome; and no step changes the
\* shared instance.
C21_InterleavedCallsRunAsAlone ==
    /\ client = Construct(args, env)
    /\ \A t \in Threads :
          pc[t] # "idle"
              => LET alone == AloneRun(client, prompt[t], ResponsesOf(t))
                 IN  /\ pc[t] = alone.pc
                     /\ idx[t] = alone.idx
                     /\ payload[t] = alone.payload
                     /\ calls[t] = alone.calls
                     /\ outcome[t] = alone.outcome

\* both calls are between their first and their second HTTP call, so their
\* HTTP calls interleave, and they carry different prompts
C21_Witness ==
    /\ pc[1] = "post" /\ Len(calls[1]) = 1 /\ idx[1] = 2
    /\ pc[2] = "post" /\ Len(calls[2]) = 1 /\ idx[2] = 2
    /\ prompt[1] = "describe a chair"
    /\ prompt[2] = "a room"
    /\ calls[1][1].response.status = 404
    /\ calls[2][1].response.status = 422

====
